---- MODULE Spec2Model ----
(***************************************************************************)
(* ConnectionPool (ConnectionPool.h): a fixed-size pool of SQLConnection    *)
(* slots, a lock-free queue of free slot ids (connectionQueue), a           *)
(* membership set (Indexes) and the flag hasActiveConnections.              *)
(*                                                                          *)
(* Every thread is a program counter over the statements of the method it   *)
(* runs; one action is one access to shared state.  _pool_mutex is an       *)
(* atomic_flag on which the code calls test_and_set once, without looping   *)
(* on its result, so the call never waits: the flag is written and the      *)
(* thread goes on.                                                          *)
(***************************************************************************)
EXTENDS Integers, Sequences, FiniteSets, Bags

\* ---------------------------------------------------------------- bounds
MaxConn == 2       \* largest numConnection given to the constructor
NumThreads == 2    \* threads that call into the pool
MaxTimeout == 1    \* largest timeout (seconds) given to GetConnecion
MaxClock == 2      \* the wall clock runs from 0 to MaxClock seconds
TimedConn == 1     \* largest numConnection in SpecTimed

Threads == 1..NumThreads
\* the thread that constructs the pool and runs its lifecycle calls
Owner == CHOOSE t \in Threads : \A u \in Threads : t <= u
NoId == 0 - 1      \* "no slot id": the value of an unset int local

VARIABLES
    phase,                 \* "new" | "ctor" | "ready" | "failed" (constructor threw)
    numConnection,         \* constructor argument
    hasActiveConnections,  \* bool hasActiveConnections
    Indexes,               \* std::unordered_set<int> Indexes
    connectionQueue,       \* moodycamel::ConcurrentQueue<int> connectionQueue (a bag of ids)
    mySqlPtrList,          \* vector of slots: [poolId, valid]
    pool_mutex,            \* std::atomic_flag _pool_mutex
    now,                   \* std::chrono::system_clock, in whole seconds
    pc,                    \* per thread: the statement it is at
    op,                    \* per thread: the method it runs ("none" when idle)
    ind,                   \* per thread: int ind / sqlPtr->getPoolId() / loop index
    success,               \* per thread: bool success
    timeout,               \* per thread: unsigned timeout
    begin,                 \* per thread: begin = system_clock::now()
    ret,                   \* per thread: what its last call returned
    held,                  \* per thread: slot ids it got from GetConnecion and has not released
    entryActive,           \* per thread: hasActiveConnections as GetConnecion read it at line 112
    failed                 \* per thread: a connect() of its ResetPoolConnections answered false

shared == <<phase, numConnection, hasActiveConnections, Indexes, connectionQueue,
            mySqlPtrList, pool_mutex>>
locals == <<pc, op, ind, success, timeout, begin, ret, held, entryActive, failed>>
vars == <<shared, now, locals>>

\* ------------------------------------------------------ SQLConnection
\* new SQLConnection(..., i): a slot with pool id i, not connected yet
NewSlot(i) == [poolId |-> i, valid |-> FALSE]
\* connect(): returns ok, and the slot is valid afterwards iff it succeeded
Connect(slot, ok) == [slot EXCEPT !.valid = ok]
\* close(): the slot is no longer valid
CloseSlot(slot) == [slot EXCEPT !.valid = FALSE]

\* ---------------------------------------------------- ConcurrentQueue
\* The queue keeps no order between the ids of different producers, and a
\* try_dequeue may take any id that is in it: its state is the bag of its ids.
EmptyQueue == EmptyBag
Enqueue(q, i) == q (+) SetToBag({i})
Remove(q, i) == q (-) SetToBag({i})
SizeApprox(q) == BagCardinality(q)
QueueIds(q) == BagToSet(q)
Occurrences(q, i) == CopiesIn(i, q)

\* ------------------------------------------------------------ helpers
NoRet == [op |-> "none", ok |-> FALSE, id |-> NoId]
GetRet(i) == [op |-> "get", ok |-> i # NoId, id |-> i]
RelRet(b, i) == [op |-> "release", ok |-> b, id |-> i]
VoidRet(o) == [op |-> o, ok |-> TRUE, id |-> NoId]

\* mutant of CloseAll: the validity test is inverted, so no open slot is closed
CloseAllInverted(list) ==
    [p \in DOMAIN list |-> IF ~list[p].valid THEN CloseSlot(list[p]) ELSE list[p]]

\* for (auto &sqlPtr : mySqlPtrList) if (sqlPtr != nullptr && sqlPtr->isValide()) sqlPtr->close();
CloseAll(list) == [p \in DOMAIN list |-> IF list[p].valid THEN CloseSlot(list[p]) ELSE list[p]]

\* statements between a _pool_mutex.test_and_set and the matching clear
RegionPcs == {"g_erase", "g_unlock", "r_enqueue", "r_insert", "r_unlock",
              "c_indexes", "c_unlock", "rs_enqueue", "rs_unlock"}
InRegion(t) == pc[t] \in RegionPcs
\* another thread is inside the region at the same time: the accesses to Indexes
\* are not ordered by the flag, a data race on the unordered_set
Racing(t) == \E u \in Threads \ {t} : InRegion(u)
\* Indexes.find(i) != Indexes.end(): exact when alone, either answer in a race
FindResults(t, i) == IF Racing(t) THEN BOOLEAN ELSE {i \in Indexes}
\* the set after a write: applied when alone, applied or lost in a race
WriteResults(t, new) == IF Racing(t) THEN {new, Indexes} ELSE {new}

Init ==
    /\ phase = "new"
    /\ numConnection = 0
    /\ hasActiveConnections = FALSE
    /\ Indexes = {}
    /\ connectionQueue = EmptyQueue
    /\ mySqlPtrList = <<>>
    /\ pool_mutex = FALSE
    /\ now = 0
    /\ pc = [t \in Threads |-> "idle"]
    /\ op = [t \in Threads |-> "none"]
    /\ ind = [t \in Threads |-> NoId]
    /\ success = [t \in Threads |-> FALSE]
    /\ timeout = [t \in Threads |-> 0]
    /\ begin = [t \in Threads |-> 0]
    /\ ret = [t \in Threads |-> NoRet]
    /\ held = [t \in Threads |-> {}]
    /\ entryActive = [t \in Threads |-> FALSE]
    /\ failed = [t \in Threads |-> FALSE]

\* a call is over: its locals die, its result is in ret
Finish(t, r) ==
    /\ pc' = [pc EXCEPT ![t] = "done"]
    /\ ret' = [ret EXCEPT ![t] = r]
    /\ ind' = [ind EXCEPT ![t] = NoId]
    /\ success' = [success EXCEPT ![t] = FALSE]
    /\ timeout' = [timeout EXCEPT ![t] = 0]
    /\ begin' = [begin EXCEPT ![t] = 0]

\* the caller has read the result of its call
Resume(t) ==
    /\ pc[t] = "done"
    /\ pc' = [pc EXCEPT ![t] = "idle"]
    /\ op' = [op EXCEPT ![t] = "none"]
    /\ ret' = [ret EXCEPT ![t] = NoRet]
    /\ entryActive' = [entryActive EXCEPT ![t] = FALSE]
    /\ UNCHANGED <<shared, now, ind, success, timeout, begin, held>>
    /\ failed' = [failed EXCEPT ![t] = FALSE]

CanCall(t) == phase = "ready" /\ pc[t] \in {"idle", "done"}

\* ---------------------------------------------------------- constructor
\* lines 50-63: the constructor starts; hasActiveConnections = false; test_and_set
CtorBegin(n) ==
    /\ phase = "new"
    /\ phase' = "ctor"
    /\ numConnection' = n
    /\ hasActiveConnections' = FALSE
    /\ success' = [success EXCEPT ![Owner] = FALSE]
    /\ pool_mutex' = TRUE
    /\ UNCHANGED <<Indexes, connectionQueue, mySqlPtrList, now, pc, op, ind, timeout,
                   begin, ret, held, entryActive>>
    /\ UNCHANGED failed

\* lines 64-82 and 92-97: one iteration of the loop, connect() answering ok; on a
\* failure ClosePoolConnections(), throw, and in the handler ClosePoolConnections()
\* again and rethrow
CtorConnect(ok) ==
    /\ phase = "ctor"
    /\ Len(mySqlPtrList) < numConnection
    /\ LET i == Len(mySqlPtrList)
           list == Append(mySqlPtrList, Connect(NewSlot(i), ok))
       IN IF ok
          THEN /\ mySqlPtrList' = list
               /\ connectionQueue' = Enqueue(connectionQueue, i)
               /\ Indexes' = Indexes \cup {i}
               /\ UNCHANGED <<phase, hasActiveConnections, pool_mutex>>
          ELSE /\ mySqlPtrList' = CloseAll(list)
               /\ connectionQueue' = EmptyQueue
               /\ Indexes' = {}
               /\ hasActiveConnections' = FALSE
               /\ pool_mutex' = FALSE
               /\ phase' = "failed"
    /\ success' = [success EXCEPT ![Owner] = ok]
    /\ UNCHANGED <<numConnection, now, pc, op, ind, timeout, begin, ret, held,
                   entryActive>>
    /\ UNCHANGED failed

\* mutant of CtorFinish: the count test is off by one (count > 1)
CtorFinishOffByOne ==
    /\ phase = "ctor"
    /\ Len(mySqlPtrList) >= numConnection
    /\ LET count == Len(mySqlPtrList)
       IN hasActiveConnections' =
              (success[Owner] /\ count > 1 /\ count = SizeApprox(connectionQueue))
    /\ pool_mutex' = FALSE
    /\ phase' = "ready"
    /\ success' = [success EXCEPT ![Owner] = FALSE]
    /\ UNCHANGED <<numConnection, Indexes, connectionQueue, mySqlPtrList, now, pc, op,
                   ind, timeout, begin, ret, held, entryActive, failed>>

\* lines 84-90: after the loop
CtorFinish ==
    /\ phase = "ctor"
    /\ Len(mySqlPtrList) >= numConnection
    /\ LET count == Len(mySqlPtrList)
       IN hasActiveConnections' =
              (success[Owner] /\ count > 0 /\ count = SizeApprox(connectionQueue))
    /\ pool_mutex' = FALSE
    /\ phase' = "ready"
    /\ success' = [success EXCEPT ![Owner] = FALSE]
    /\ UNCHANGED <<numConnection, Indexes, connectionQueue, mySqlPtrList, now, pc, op,
                   ind, timeout, begin, ret, held, entryActive>>
    /\ UNCHANGED failed

\* mutant of CallGet: the check of hasActiveConnections (line 112) is missing
CallGetNoCheck(t, T) ==
    /\ CanCall(t)
    /\ now + T <= MaxClock
    /\ op' = [op EXCEPT ![t] = "get"]
    /\ entryActive' = [entryActive EXCEPT ![t] = hasActiveConnections]
    /\ timeout' = [timeout EXCEPT ![t] = T]
    /\ begin' = [begin EXCEPT ![t] = now]
    /\ pc' = [pc EXCEPT ![t] = "g_poll"]
    /\ failed' = [failed EXCEPT ![t] = FALSE]
    /\ UNCHANGED <<shared, now, held, ind, success, ret>>

\* ---------------------------------------------------------- GetConnecion
\* lines 110-123: the call; the check of hasActiveConnections; begin = now()
CallGet(t, T) ==
    /\ CanCall(t)
    /\ now + T <= MaxClock
    /\ op' = [op EXCEPT ![t] = "get"]
    /\ entryActive' = [entryActive EXCEPT ![t] = hasActiveConnections]
    /\ IF ~hasActiveConnections
       THEN Finish(t, GetRet(NoId))
       ELSE /\ timeout' = [timeout EXCEPT ![t] = T]
            /\ begin' = [begin EXCEPT ![t] = now]
            /\ pc' = [pc EXCEPT ![t] = "g_poll"]
            /\ UNCHANGED <<ind, success, ret>>
    /\ UNCHANGED <<shared, now, held>>
    /\ failed' = [failed EXCEPT ![t] = FALSE]

\* mutant of GTryDequeueHit: the id is read but stays in the queue
GTryDequeuePeek(t) ==
    /\ pc[t] = "g_poll"
    /\ \E i \in QueueIds(connectionQueue) :
          /\ ind' = [ind EXCEPT ![t] = i]
          /\ success' = [success EXCEPT ![t] = TRUE]
          /\ pc' = [pc EXCEPT ![t] = IF i < Len(mySqlPtrList) THEN "g_find" ELSE "g_time"]
    /\ UNCHANGED <<shared, now, op, timeout, begin, ret, held, entryActive, failed>>

\* lines 127-128: success = connectionQueue.try_dequeue(ind), an id is there
GTryDequeueHit(t) ==
    /\ pc[t] = "g_poll"
    /\ \E i \in QueueIds(connectionQueue) :
          /\ ind' = [ind EXCEPT ![t] = i]
          /\ connectionQueue' = Remove(connectionQueue, i)
          /\ success' = [success EXCEPT ![t] = TRUE]
          /\ pc' = [pc EXCEPT ![t] = IF i < Len(mySqlPtrList) THEN "g_find" ELSE "g_time"]
    /\ UNCHANGED <<phase, numConnection, hasActiveConnections, Indexes, mySqlPtrList,
                   pool_mutex, now, op, timeout, begin, ret, held, entryActive>>
    /\ UNCHANGED failed

\* lines 127-128: try_dequeue on an empty queue
GTryDequeueMiss(t) ==
    /\ pc[t] = "g_poll"
    /\ connectionQueue = EmptyQueue
    /\ success' = [success EXCEPT ![t] = FALSE]
    /\ pc' = [pc EXCEPT ![t] = "g_time"]
    /\ UNCHANGED <<shared, now, op, ind, timeout, begin, ret, held, entryActive>>
    /\ UNCHANGED failed

\* mutant of GTimeout: the test "timeout > 0" (line 140) is missing, so a call
\* with timeout 0 gives up at its first empty poll
GTimeoutNoGuard(t) ==
    /\ pc[t] = "g_time"
    /\ LET elapsed == now - begin[t]
       IN IF elapsed >= timeout[t] \/ success[t]
          THEN Finish(t, GetRet(NoId))
          ELSE /\ pc' = [pc EXCEPT ![t] = "g_poll"]
               /\ UNCHANGED <<ind, success, timeout, begin, ret>>
    /\ UNCHANGED <<shared, now, op, held, entryActive, failed>>

\* mutant of GTimeout: the comparison is off by one second (elapsed + 1 >= timeout)
GTimeoutEarly(t) ==
    /\ pc[t] = "g_time"
    /\ LET elapsed == now - begin[t]
       IN IF (timeout[t] > 0 /\ elapsed + 1 >= timeout[t]) \/ success[t]
          THEN Finish(t, GetRet(NoId))
          ELSE /\ pc' = [pc EXCEPT ![t] = "g_poll"]
               /\ UNCHANGED <<ind, success, timeout, begin, ret>>
    /\ UNCHANGED <<shared, now, op, held, entryActive, failed>>

\* lines 140-150: the timeout check and the loop condition
GTimeout(t) ==
    /\ pc[t] = "g_time"
    /\ LET elapsed == now - begin[t]
       IN IF (timeout[t] > 0 /\ elapsed >= timeout[t]) \/ success[t]
          THEN Finish(t, GetRet(NoId))
          ELSE /\ pc' = [pc EXCEPT ![t] = "g_poll"]
               /\ UNCHANGED <<ind, success, timeout, begin, ret>>
    /\ UNCHANGED <<shared, now, op, held, entryActive>>
    /\ UNCHANGED failed

\* lines 130-132: test_and_set; it = Indexes.find(ind)
GLockFind(t) ==
    /\ pc[t] = "g_find"
    /\ pool_mutex' = TRUE
    /\ \E found \in FindResults(t, ind[t]) :
          pc' = [pc EXCEPT ![t] = IF found THEN "g_erase" ELSE "g_unlock"]
    /\ UNCHANGED <<phase, numConnection, hasActiveConnections, Indexes, connectionQueue,
                   mySqlPtrList, now, op, ind, success, timeout, begin, ret, held,
                   entryActive>>
    /\ UNCHANGED failed

\* line 133: Indexes.erase(ind)
GErase(t) ==
    /\ pc[t] = "g_erase"
    /\ Indexes' \in WriteResults(t, Indexes \ {ind[t]})
    /\ pc' = [pc EXCEPT ![t] = "g_unlock"]
    /\ UNCHANGED <<phase, numConnection, hasActiveConnections, connectionQueue,
                   mySqlPtrList, pool_mutex, now, op, ind, success, timeout, begin, ret,
                   held, entryActive>>
    /\ UNCHANGED failed

\* lines 134-135: clear; return mySqlPtrList[ind].get()
GUnlockReturn(t) ==
    /\ pc[t] = "g_unlock"
    /\ pool_mutex' = FALSE
    /\ held' = [held EXCEPT ![t] = @ \cup {ind[t]}]
    /\ Finish(t, GetRet(ind[t]))
    /\ UNCHANGED <<phase, numConnection, hasActiveConnections, Indexes, connectionQueue,
                   mySqlPtrList, now, op, entryActive>>
    /\ UNCHANGED failed

\* mutant of CallRelease: the test getPoolId() > -1 (line 155) is missing
CallReleaseNoCheck(t, i) ==
    /\ CanCall(t)
    /\ op' = [op EXCEPT ![t] = "release"]
    /\ held' = [held EXCEPT ![t] = @ \ {i}]
    /\ pc' = [pc EXCEPT ![t] = "r_find"]
    /\ ind' = [ind EXCEPT ![t] = i]
    /\ failed' = [failed EXCEPT ![t] = FALSE]
    /\ UNCHANGED <<shared, now, entryActive, success, timeout, begin, ret>>

\* ------------------------------------------------------ ReleaseConnecion
\* lines 153-155, 167: the call with a slot whose pool id is i
CallRelease(t, i) ==
    /\ CanCall(t)
    /\ op' = [op EXCEPT ![t] = "release"]
    /\ held' = [held EXCEPT ![t] = @ \ {i}]
    /\ IF i > 0 - 1
       THEN /\ pc' = [pc EXCEPT ![t] = "r_find"]
            /\ ind' = [ind EXCEPT ![t] = i]
            /\ UNCHANGED <<success, timeout, begin, ret>>
       ELSE Finish(t, RelRet(FALSE, i))
    /\ UNCHANGED <<shared, now, entryActive>>
    /\ failed' = [failed EXCEPT ![t] = FALSE]

\* mutant of RLockFind: the membership test (line 159) is missing, the id is
\* always enqueued
RLockNoFind(t) ==
    /\ pc[t] = "r_find"
    /\ pool_mutex' = TRUE
    /\ pc' = [pc EXCEPT ![t] = "r_enqueue"]
    /\ UNCHANGED <<phase, numConnection, hasActiveConnections, Indexes, connectionQueue,
                   mySqlPtrList, now, op, ind, success, timeout, begin, ret, held,
                   entryActive, failed>>

\* lines 157-159: test_and_set; it = Indexes.find(getPoolId())
RLockFind(t) ==
    /\ pc[t] = "r_find"
    /\ pool_mutex' = TRUE
    /\ \E found \in FindResults(t, ind[t]) :
          pc' = [pc EXCEPT ![t] = IF found THEN "r_unlock" ELSE "r_enqueue"]
    /\ UNCHANGED <<phase, numConnection, hasActiveConnections, Indexes, connectionQueue,
                   mySqlPtrList, now, op, ind, success, timeout, begin, ret, held,
                   entryActive>>
    /\ UNCHANGED failed

\* line 161: connectionQueue.enqueue(getPoolId())
REnqueue(t) ==
    /\ pc[t] = "r_enqueue"
    /\ connectionQueue' = Enqueue(connectionQueue, ind[t])
    /\ pc' = [pc EXCEPT ![t] = "r_insert"]
    /\ UNCHANGED <<phase, numConnection, hasActiveConnections, Indexes, mySqlPtrList,
                   pool_mutex, now, op, ind, success, timeout, begin, ret, held,
                   entryActive>>
    /\ UNCHANGED failed

\* line 162: Indexes.insert(getPoolId())
RInsert(t) ==
    /\ pc[t] = "r_insert"
    /\ Indexes' \in WriteResults(t, Indexes \cup {ind[t]})
    /\ pc' = [pc EXCEPT ![t] = "r_unlock"]
    /\ UNCHANGED <<phase, numConnection, hasActiveConnections, connectionQueue,
                   mySqlPtrList, pool_mutex, now, op, ind, success, timeout, begin, ret,
                   held, entryActive>>
    /\ UNCHANGED failed

\* lines 164-165: clear; return true
RUnlockReturn(t) ==
    /\ pc[t] = "r_unlock"
    /\ pool_mutex' = FALSE
    /\ Finish(t, RelRet(TRUE, ind[t]))
    /\ UNCHANGED <<phase, numConnection, hasActiveConnections, Indexes, connectionQueue,
                   mySqlPtrList, now, op, held, entryActive>>
    /\ UNCHANGED failed

\* -------------------------------------------------- ClosePoolConnections
\* lines 186-188 (and 201-204 when entered from ResetPoolConnections):
\* hasActiveConnections = false
CallClose(t, o) ==
    /\ CanCall(t)
    /\ op' = [op EXCEPT ![t] = o]
    /\ hasActiveConnections' = FALSE
    /\ pc' = [pc EXCEPT ![t] = "c_slots"]
    /\ UNCHANGED <<phase, numConnection, Indexes, connectionQueue, mySqlPtrList,
                   pool_mutex, now, ind, success, timeout, begin, ret, held, entryActive>>
    /\ failed' = [failed EXCEPT ![t] = FALSE]

\* lines 189-193: close every valid slot
CCloseSlots(t) ==
    /\ pc[t] = "c_slots"
    /\ mySqlPtrList' = CloseAll(mySqlPtrList)
    /\ pc' = [pc EXCEPT ![t] = "c_queue"]
    /\ UNCHANGED <<phase, numConnection, hasActiveConnections, Indexes, connectionQueue,
                   pool_mutex, now, op, ind, success, timeout, begin, ret, held,
                   entryActive>>
    /\ UNCHANGED failed

\* mutant of CLockClearQueue: the queue is not replaced by an empty one
CLockKeepQueue(t) ==
    /\ pc[t] = "c_queue"
    /\ pool_mutex' = TRUE
    /\ pc' = [pc EXCEPT ![t] = "c_indexes"]
    /\ UNCHANGED <<phase, numConnection, hasActiveConnections, Indexes, mySqlPtrList,
                   connectionQueue, now, op, ind, success, timeout, begin, ret, held,
                   entryActive>>
    /\ UNCHANGED failed

\* lines 195-196: test_and_set; connectionQueue = ConcurrentQueue<int>()
CLockClearQueue(t) ==
    /\ pc[t] = "c_queue"
    /\ pool_mutex' = TRUE
    /\ connectionQueue' = EmptyQueue
    /\ pc' = [pc EXCEPT ![t] = "c_indexes"]
    /\ UNCHANGED <<phase, numConnection, hasActiveConnections, Indexes, mySqlPtrList,
                   now, op, ind, success, timeout, begin, ret, held, entryActive>>
    /\ UNCHANGED failed

\* line 197: Indexes = unordered_set<int>()
CClearIndexes(t) ==
    /\ pc[t] = "c_indexes"
    /\ Indexes' \in WriteResults(t, {})
    /\ pc' = [pc EXCEPT ![t] = "c_unlock"]
    /\ UNCHANGED <<phase, numConnection, hasActiveConnections, connectionQueue,
                   mySqlPtrList, pool_mutex, now, op, ind, success, timeout, begin, ret,
                   held, entryActive>>
    /\ UNCHANGED failed

\* line 198: clear; ClosePoolConnections returns, to its caller or into the loop
\* of ResetPoolConnections (line 205)
CUnlock(t) ==
    /\ pc[t] = "c_unlock"
    /\ pool_mutex' = FALSE
    /\ IF op[t] = "reset"
       THEN /\ pc' = [pc EXCEPT ![t] = "rs_connect"]
            /\ ind' = [ind EXCEPT ![t] = 0]
            /\ UNCHANGED <<success, timeout, begin, ret>>
       ELSE Finish(t, VoidRet("close"))
    /\ UNCHANGED <<phase, numConnection, hasActiveConnections, Indexes, connectionQueue,
                   mySqlPtrList, now, op, held, entryActive>>
    /\ UNCHANGED failed

\* -------------------------------------------------- ResetPoolConnections
\* lines 205-209 and 215-223: connect() of the next slot answering ok; on a failure
\* every valid slot is closed and the loop goes on
RsConnect(t, ok) ==
    /\ pc[t] = "rs_connect"
    /\ ind[t] < Len(mySqlPtrList)
    /\ success' = [success EXCEPT ![t] = ok]
    /\ LET list == [mySqlPtrList EXCEPT ![ind[t] + 1] = Connect(@, ok)]
       IN IF ok
          THEN /\ mySqlPtrList' = list
               /\ pc' = [pc EXCEPT ![t] = "rs_insert"]
               /\ UNCHANGED ind
          ELSE /\ mySqlPtrList' = CloseAll(list)
               /\ ind' = [ind EXCEPT ![t] = @ + 1]
               /\ UNCHANGED pc
    /\ UNCHANGED <<phase, numConnection, hasActiveConnections, Indexes, connectionQueue,
                   pool_mutex, now, op, timeout, begin, ret, held, entryActive>>
    /\ failed' = [failed EXCEPT ![t] = @ \/ ~ok]

\* lines 210-211: test_and_set; Indexes.insert(getPoolId())
RsLockInsert(t) ==
    /\ pc[t] = "rs_insert"
    /\ pool_mutex' = TRUE
    /\ Indexes' \in WriteResults(t, Indexes \cup {mySqlPtrList[ind[t] + 1].poolId})
    /\ pc' = [pc EXCEPT ![t] = "rs_enqueue"]
    /\ UNCHANGED <<phase, numConnection, hasActiveConnections, connectionQueue,
                   mySqlPtrList, now, op, ind, success, timeout, begin, ret, held,
                   entryActive>>
    /\ UNCHANGED failed

\* line 212: connectionQueue.enqueue(getPoolId())
RsEnqueue(t) ==
    /\ pc[t] = "rs_enqueue"
    /\ connectionQueue' = Enqueue(connectionQueue, mySqlPtrList[ind[t] + 1].poolId)
    /\ pc' = [pc EXCEPT ![t] = "rs_unlock"]
    /\ UNCHANGED <<phase, numConnection, hasActiveConnections, Indexes, mySqlPtrList,
                   pool_mutex, now, op, ind, success, timeout, begin, ret, held,
                   entryActive>>
    /\ UNCHANGED failed

\* line 213: clear; the next iteration
RsUnlock(t) ==
    /\ pc[t] = "rs_unlock"
    /\ pool_mutex' = FALSE
    /\ ind' = [ind EXCEPT ![t] = @ + 1]
    /\ pc' = [pc EXCEPT ![t] = "rs_connect"]
    /\ UNCHANGED <<phase, numConnection, hasActiveConnections, Indexes, connectionQueue,
                   mySqlPtrList, now, op, success, timeout, begin, ret, held, entryActive>>
    /\ UNCHANGED failed

\* mutant of RsFinal: the test count > 0 (line 226) is count > 1
RsFinalOffByOne(t) ==
    /\ pc[t] = "rs_connect"
    /\ ind[t] >= Len(mySqlPtrList)
    /\ LET count == Len(mySqlPtrList)
       IN hasActiveConnections' =
              IF success[t] /\ count > 1 /\ count = SizeApprox(connectionQueue)
              THEN TRUE ELSE hasActiveConnections
    /\ Finish(t, VoidRet("reset"))
    /\ UNCHANGED <<phase, numConnection, Indexes, connectionQueue, mySqlPtrList,
                   pool_mutex, now, op, held, entryActive>>
    /\ UNCHANGED failed

\* lines 226-229: after the loop
RsFinal(t) ==
    /\ pc[t] = "rs_connect"
    /\ ind[t] >= Len(mySqlPtrList)
    /\ LET count == Len(mySqlPtrList)
       IN hasActiveConnections' =
              IF success[t] /\ count > 0 /\ count = SizeApprox(connectionQueue)
              THEN TRUE ELSE hasActiveConnections
    /\ Finish(t, VoidRet("reset"))
    /\ UNCHANGED <<phase, numConnection, Indexes, connectionQueue, mySqlPtrList,
                   pool_mutex, now, op, held, entryActive>>
    /\ UNCHANGED failed

\* ------------------------------------------------------------- the clock
Tick ==
    /\ now < MaxClock
    /\ now' = now + 1
    /\ UNCHANGED <<shared, locals>>

\* ------------------------------------------------------ specifications
ConstructUpTo(m) ==
    \/ \E n \in 0..m : CtorBegin(n)
    \/ \E ok \in BOOLEAN : CtorConnect(ok)
    \/ CtorFinish

Construct == ConstructUpTo(MaxConn)

GetSteps(t) ==
    \/ GTryDequeueHit(t)
    \/ GTryDequeueMiss(t)
    \/ GTimeout(t)
    \/ GLockFind(t)
    \/ GErase(t)
    \/ GUnlockReturn(t)

ReleaseSteps(t) ==
    \/ RLockFind(t)
    \/ REnqueue(t)
    \/ RInsert(t)
    \/ RUnlockReturn(t)

LifecycleSteps(t) ==
    \/ CCloseSlots(t)
    \/ CLockClearQueue(t)
    \/ CClearIndexes(t)
    \/ CUnlock(t)
    \/ \E ok \in BOOLEAN : RsConnect(t, ok)
    \/ RsLockInsert(t)
    \/ RsEnqueue(t)
    \/ RsUnlock(t)
    \/ RsFinal(t)

\* Spec: GetConnecion and ReleaseConnecion only, from every thread and in every
\* interleaving, by callers that release only a slot they hold, once.
Next ==
    \/ Construct
    \/ \E t \in Threads :
          \/ pc[t] = "idle" /\ CallGet(t, 0)
          \/ \E i \in held[t] : pc[t] = "idle" /\ CallRelease(t, i)
          \/ GetSteps(t)
          \/ ReleaseSteps(t)
          \/ Resume(t)

Spec == Init /\ [][Next]_vars

\* SpecFair: Spec with threads that keep running: a thread inside GetConnecion
\* (the do-while of lines 125-148) or inside ReleaseConnecion takes its next step.
SpecFair ==
    /\ Init
    /\ [][Next]_vars
    /\ \A t \in Threads : WF_vars(GetSteps(t)) /\ WF_vars(ReleaseSteps(t))

\* SpecLife: the owner thread calls ClosePoolConnections and ResetPoolConnections
\* while a caller thread calls GetConnecion and ReleaseConnecion and holds slots.
Caller == Owner + 1

NextLife ==
    \/ Construct
    \/ pc[Caller] = "idle" /\ CallGet(Caller, 0)
    \/ \E i \in held[Caller] : pc[Caller] = "idle" /\ CallRelease(Caller, i)
    \/ GetSteps(Caller)
    \/ ReleaseSteps(Caller)
    \/ Resume(Caller)
    \/ \E o \in {"close", "reset"} : pc[Owner] = "idle" /\ CallClose(Owner, o)
    \/ LifecycleSteps(Owner)
    \/ Resume(Owner)

SpecLife == Init /\ [][NextLife]_vars

\* SpecTimed: the owner thread calls GetConnecion with every timeout T > 0 and the
\* caller thread with timeout 0; both release what they hold, and the clock runs.
\* A thread inside GetConnecion keeps being scheduled and the clock keeps running.
NextTimed ==
    \/ ConstructUpTo(TimedConn)
    \/ Tick
    \/ \E T \in 1..MaxTimeout : pc[Owner] = "idle" /\ CallGet(Owner, T)
    \/ pc[Caller] = "idle" /\ CallGet(Caller, 0)
    \/ \E t \in {Owner, Caller} :
          \/ \E i \in held[t] : pc[t] = "idle" /\ CallRelease(t, i)
          \/ GetSteps(t)
          \/ ReleaseSteps(t)
          \/ Resume(t)

SpecTimed ==
    /\ Init
    /\ [][NextTimed]_vars
    /\ WF_vars(Tick)
    /\ \A t \in {Owner, Caller} : WF_vars(GetSteps(t))

\* SpecSeq: one thread, one call at a time, every method with every argument
\* (a release of any slot id, held or not, and of a slot with the sentinel id).
NextSeq ==
    \/ Construct
    \/ Tick
    \/ \E T \in 0..MaxTimeout : CallGet(Owner, T)
    \/ \E i \in NoId..MaxConn : CallRelease(Owner, i)
    \/ \E o \in {"close", "reset"} : CallClose(Owner, o)
    \/ GetSteps(Owner)
    \/ ReleaseSteps(Owner)
    \/ LifecycleSteps(Owner)

SpecSeq == Init /\ [][NextSeq]_vars

\* ================================================================ claims
SlotIds == 0..(Len(mySqlPtrList) - 1)
\* a thread between a successful try_dequeue and the return of GetConnecion
Taking(t) == pc[t] \in {"g_find", "g_erase", "g_unlock"}
\* a thread inside ReleaseConnecion that has not enqueued (or skipped) yet
Giving(t) == pc[t] \in {"r_find", "r_enqueue"}
AllHeld == UNION {held[t] : t \in Threads}
ExactlyOnceEach(q, ids) == QueueIds(q) = ids /\ \A i \in ids : Occurrences(q, i) = 1

\* C1: with callers that release only what they hold, once, no slot id is held
\* by two callers at the same time, and GetConnecion never returns an id that
\* some caller still holds.
C1_MutualExclusion ==
    /\ \A t \in Threads : \A u \in Threads \ {t} : held[t] \cap held[u] = {}
    /\ \A t \in Threads : pc[t] = "g_unlock" => ind[t] \notin AllHeld
    /\ \A t \in Threads : \A u \in Threads \ {t} :
          (Taking(t) /\ Taking(u)) => ind[t] # ind[u]

\* an id released by one caller is held by another afterwards
C1_Witness ==
    \E t \in Threads : \E u \in Threads \ {t} :
        /\ pc[t] = "done" /\ ret[t].op = "release" /\ ret[t].ok
        /\ ret[t].id \in held[u]

\* C2: on an active pool the checked-out ids (held, being returned by a
\* GetConnecion, or not yet given back by a ReleaseConnecion in progress) and the
\* ids in connectionQueue are disjoint and together are exactly 0..N-1.
C2_Partition ==
    (phase = "ready" /\ hasActiveConnections) =>
        LET out == AllHeld \cup {ind[t] : t \in {u \in Threads : Taking(u) \/ Giving(u)}}
            free == QueueIds(connectionQueue)
        IN /\ out \cap free = {}
           /\ out \cup free = SlotIds

\* C3: the constructor, when every connect() succeeds, ends with each id of
\* 0..N-1 exactly once in connectionQueue and in Indexes and with
\* hasActiveConnections true when N >= 1, false (and nothing free) when N = 0.
C3_Construction ==
    [][(phase = "ctor" /\ phase' = "ready") =>
          /\ Len(mySqlPtrList') = numConnection
          /\ ExactlyOnceEach(connectionQueue', 0..(numConnection - 1))
          /\ Indexes' = 0..(numConnection - 1)
          /\ hasActiveConnections' = (numConnection >= 1)]_vars

\* a pool of MaxConn slots right after its construction
C3_Witness ==
    /\ phase = "ready" /\ numConnection = MaxConn /\ hasActiveConnections
    /\ SizeApprox(connectionQueue) = MaxConn
    /\ \A t \in Threads : op[t] = "none" /\ pc[t] = "idle"

\* C4: when a connect() of the constructor fails, the constructor ends in the
\* error outcome with no further slot attempted, every slot closed, nothing free
\* and hasActiveConnections false.
C4_ConstructionFailure ==
    /\ phase = "failed" =>
          /\ \A p \in DOMAIN mySqlPtrList : ~mySqlPtrList[p].valid
          /\ connectionQueue = EmptyQueue /\ Indexes = {}
          /\ ~hasActiveConnections
          /\ Len(mySqlPtrList) \in 1..numConnection
          /\ ~success[Owner]
    /\ phase = "ctor" => \A p \in DOMAIN mySqlPtrList : mySqlPtrList[p].valid

\* the last of MaxConn connects failed after the others had succeeded
C4_Witness == phase = "failed" /\ Len(mySqlPtrList) = MaxConn /\ MaxConn > 1

AllClosed == \A p \in DOMAIN mySqlPtrList : ~mySqlPtrList[p].valid
\* a thread whose ResetPoolConnections has returned after a connect() of it failed
ResetFailed(t) == pc[t] = "done" /\ ret[t].op = "reset" /\ failed[t]

\* C5: when ResetPoolConnections returns after a connect() of it failed (no
\* concurrent callers), every slot is closed and hasActiveConnections is false.
C5_ResetFailureClosesAll ==
    \A t \in Threads : ResetFailed(t) => (AllClosed /\ ~hasActiveConnections)

\* C6: when ResetPoolConnections returns after a connect() of it failed, with
\* callers that hold slots calling GetConnecion and ReleaseConnecion meanwhile,
\* hasActiveConnections is false.
C6_ResetFailureInactive ==
    \A t \in Threads : ResetFailed(t) => ~hasActiveConnections

\* C7: a GetConnecion invoked while hasActiveConnections is false, with any
\* timeout, returns "no slot" in that step, without polling, and leaves
\* connectionQueue, Indexes, hasActiveConnections and the slots unchanged.
C7_InactiveAcquire ==
    [][\A t \in Threads :
          (CanCall(t) /\ now' = now /\ op'[t] = "get" /\ ~hasActiveConnections) =>
              /\ pc'[t] = "done"
              /\ ret'[t] = GetRet(NoId)
              /\ held'[t] = held[t]
              /\ UNCHANGED <<connectionQueue, Indexes, hasActiveConnections,
                             mySqlPtrList>>]_vars

\* a GetConnecion that found a pool of closed slots inactive and returned "no slot"
C7_Witness ==
    \E t \in Threads :
        /\ pc[t] = "done" /\ op[t] = "get" /\ ~entryActive[t]
        /\ ret[t] = GetRet(NoId)
        /\ Len(mySqlPtrList) > 0 /\ AllClosed

\* C8 as stated: a GetConnecion(0) on a pool of N >= 1 slots never returns
\* "no slot", also when it is invoked after ClosePoolConnections: it waits until
\* a slot is supplied.
C8_BlocksAfterClose ==
    \A t \in Threads :
        (pc[t] = "done" /\ op[t] = "get" /\ Len(mySqlPtrList) > 0) => ret[t].ok

\* C8 amended: a GetConnecion(0) invoked while hasActiveConnections is false
\* (after ClosePoolConnections) returns "no slot" at once; one that found the pool
\* active, also when ClosePoolConnections runs while it polls, returns only once an
\* id is in connectionQueue, and returns the slot of that id.
C8_BlocksOnlyWhenActive ==
    /\ \A t \in Threads :
          (pc[t] = "done" /\ op[t] = "get") =>
              /\ ret[t].ok = entryActive[t]
              /\ ret[t].ok => (ret[t].id \in SlotIds /\ ret[t].id \in held[t])
    /\ \A t \in Threads :
          (op[t] = "get" /\ pc[t] # "done") => (entryActive[t] /\ timeout[t] = 0)

\* a GetConnecion(0) that found the pool active returned a slot after
\* ClosePoolConnections had made the pool inactive
C8_Witness ==
    \E t \in Threads :
        /\ pc[t] = "done" /\ op[t] = "get" /\ entryActive[t] /\ ret[t].ok
        /\ ~hasActiveConnections /\ pc[Owner] = "idle"

\* C10: a second ReleaseConnecion of the same valid id right after the first
\* returns true as the first did and changes nothing: the id is once in
\* connectionQueue and once in Indexes, as after the first call.
SecondRelease(t) ==
    /\ op[t] = "release" /\ pc[t] \in {"r_find", "r_enqueue", "r_insert", "r_unlock"}
    /\ ret[t] = RelRet(TRUE, ind[t])
    /\ ind[t] \in SlotIds
C10_ReleaseIdempotent ==
    [][\A t \in Threads :
          SecondRelease(t) =>
              /\ UNCHANGED <<connectionQueue, Indexes, hasActiveConnections, mySqlPtrList>>
              /\ Occurrences(connectionQueue, ind[t]) = 1
              /\ ind[t] \in Indexes
              /\ pc'[t] = "done" => ret'[t] = RelRet(TRUE, ind[t])]_vars

\* the second of two releases of the same id is about to return
C10_Witness ==
    \E t \in Threads : SecondRelease(t) /\ pc[t] = "r_unlock"

\* a thread polling inside a GetConnecion with a timeout T > 0
TimedPolling(t) == pc[t] \in {"g_poll", "g_time"} /\ timeout[t] > 0
Elapsed(t) == now - begin[t]

\* C9: a GetConnecion(T), T > 0, on an active pool returns "no slot" only at a
\* timeout check at which at least T whole seconds have elapsed since the call
\* began, never earlier, and returns it at the first such check; an id it
\* dequeues first is the slot it returns; and it does return: it does not poll
\* for ever.
C9_AcquireTimeout ==
    /\ [][\A t \in Threads :
             (TimedPolling(t) /\ pc'[t] = "done") =>
                 /\ pc[t] = "g_time" /\ Elapsed(t) >= timeout[t]
                 /\ ret'[t] = GetRet(NoId)]_vars
    /\ [][\A t \in Threads :
             (TimedPolling(t) /\ pc[t] = "g_time" /\ Elapsed(t) >= timeout[t]
                 /\ pc'[t] # pc[t]) =>
                 (pc'[t] = "done" /\ ret'[t] = GetRet(NoId))]_vars
    /\ [][\A t \in Threads :
             (TimedPolling(t) /\ pc[t] = "g_poll" /\ connectionQueue # EmptyQueue
                 /\ pc'[t] # pc[t]) =>
                 (pc'[t] = "g_find" /\ ind'[t] \in QueueIds(connectionQueue))]_vars
    /\ [][\A t \in Threads :
             (Taking(t) /\ pc'[t] = "done") =>
                 (ret'[t] = GetRet(ind[t]) /\ ind[t] \in held'[t])]_vars
    /\ \A t \in Threads : TimedPolling(t) ~> (pc[t] = "done" \/ Taking(t))

\* a GetConnecion(T), T > 0, that found the pool active has timed out
C9_Witness ==
    \E t \in Threads :
        /\ pc[t] = "done" /\ op[t] = "get" /\ entryActive[t]
        /\ ret[t] = GetRet(NoId) /\ now >= 1

\* a step that is a call by t of the method o (the clock does not move in it)
CallStep(t, o) == CanCall(t) /\ now' = now /\ op'[t] = o
ReleasePcs == {"r_find", "r_enqueue", "r_insert", "r_unlock"}

\* C11: a ReleaseConnecion of a slot with a negative pool id returns false in
\* that step and leaves connectionQueue, Indexes, hasActiveConnections,
\* _pool_mutex and every slot unchanged; only ids >= 0 get past the test, and a
\* ReleaseConnecion of an id >= 0 returns true.
C11_InvalidRelease ==
    [][\A t \in Threads :
          /\ (CallStep(t, "release") /\ pc'[t] = "done") =>
                /\ ret'[t].op = "release" /\ ret'[t].id < 0 /\ ~ret'[t].ok
                /\ UNCHANGED <<connectionQueue, Indexes, hasActiveConnections,
                               mySqlPtrList, pool_mutex>>
          /\ (CallStep(t, "release") /\ pc'[t] = "r_find") => ind'[t] >= 0
          /\ (pc[t] \in ReleasePcs /\ pc'[t] = "done") =>
                (ind[t] >= 0 /\ ret'[t] = RelRet(TRUE, ind[t]))]_vars

\* a release of the sentinel id was rejected on an active pool with free ids
C11_Witness ==
    \E t \in Threads :
        /\ pc[t] = "done" /\ ret[t] = RelRet(FALSE, NoId)
        /\ hasActiveConnections /\ connectionQueue # EmptyQueue

\* the state ClosePoolConnections promises: nothing free, nothing connected,
\* and the N slots with ids 0..N-1 still in the list
ClosedPool ==
    /\ ~hasActiveConnections
    /\ connectionQueue = EmptyQueue /\ Indexes = {}
    /\ AllClosed
    /\ Len(mySqlPtrList) = numConnection
    /\ \A p \in DOMAIN mySqlPtrList : mySqlPtrList[p].poolId = p - 1
ClosePcs == {"c_slots", "c_queue", "c_indexes", "c_unlock"}
\* t is inside a ClosePoolConnections that directly follows a returned one
SecondClose(t) == op[t] = "close" /\ pc[t] \in ClosePcs /\ ret[t].op = "close"

\* C12: when ClosePoolConnections returns (no call running beside it), from an
\* active pool, a closed one or one with ids checked out, the flag is false,
\* connectionQueue and Indexes are empty, no slot is valid, the lock is free and
\* the list still has the N slots 0..N-1; no step of a ClosePoolConnections
\* called right after one changes the flag, the queue, Indexes or a slot.
C12_CloseIdempotent ==
    /\ [](\A t \in Threads :
              (pc[t] = "done" /\ ret[t].op = "close") => (ClosedPool /\ ~pool_mutex))
    /\ [][\A t \in Threads :
              ((CallStep(t, "close") /\ ret[t].op = "close") \/ SecondClose(t)) =>
                  UNCHANGED <<hasActiveConnections, connectionQueue, Indexes,
                              mySqlPtrList, numConnection>>]_vars

\* a second ClosePoolConnections is about to return while its caller still
\* holds an id it acquired before the first one
C12_Witness ==
    \E t \in Threads :
        /\ SecondClose(t) /\ pc[t] = "c_unlock"
        /\ held[t] # {} /\ ClosedPool

\* a thread whose ResetPoolConnections has returned with every connect() of it
\* successful
ResetDone(t) == pc[t] = "done" /\ ret[t].op = "reset" /\ ~failed[t]

\* C13: for N >= 1 (no concurrent callers), a returned ClosePoolConnections
\* leaves HasActiveConnections() false and no free id, and a returned
\* ResetPoolConnections all of whose connect() calls succeeded leaves
\* HasActiveConnections() true, every slot connected, and exactly the ids
\* 0..N-1 free, each once in the queue and all in Indexes.
C13_CloseThenReset ==
    \A t \in Threads :
        /\ (pc[t] = "done" /\ ret[t].op = "close") =>
               (~hasActiveConnections /\ SizeApprox(connectionQueue) = 0)
        /\ (ResetDone(t) /\ numConnection >= 1) =>
               /\ hasActiveConnections
               /\ Len(mySqlPtrList) = numConnection
               /\ ExactlyOnceEach(connectionQueue, SlotIds)
               /\ SizeApprox(connectionQueue) = numConnection
               /\ Indexes = SlotIds
               /\ \A p \in DOMAIN mySqlPtrList : mySqlPtrList[p].valid

\* a pool of MaxConn slots has been reset with every reconnect successful
C13_Witness ==
    \E t \in Threads :
        /\ ResetDone(t) /\ numConnection = MaxConn
        /\ hasActiveConnections /\ SizeApprox(connectionQueue) = MaxConn

\* C14: at most one thread at a time is between a _pool_mutex.test_and_set and
\* the matching clear, so that no two threads read or modify Indexes
\* concurrently.
C14_IndexesExclusive ==
    \A t \in Threads : \A u \in Threads \ {t} : ~(InRegion(t) /\ InRegion(u))

\* the ids a GetConnecion can dequeue
FreeIds == QueueIds(connectionQueue)

\* C15: in every interleaving of GetConnecion, ReleaseConnecion,
\* ClosePoolConnections and ResetPoolConnections, GetConnecion never returns an
\* id that is checked out (returned and not yet released by its holder), and a
\* checked-out id becomes free again only by the enqueue of a ReleaseConnecion.
C15_ExclusiveOwnership ==
    /\ [](\A t \in Threads : pc[t] = "g_unlock" => ind[t] \notin AllHeld)
    /\ [][\A i \in AllHeld :
              (i \notin FreeIds /\ i \in FreeIds') =>
                  \E t \in Threads : pc[t] = "r_enqueue" /\ ind[t] = i /\ REnqueue(t)]_vars

\* a GetConnecion(0) of t is polling an empty queue
Polling(t) == op[t] = "get" /\ pc[t] \in {"g_poll", "g_time"} /\ timeout[t] = 0
\* u has just called ReleaseConnecion on id i, the other ids being checked out
Releasing(u, i) == pc[u] = "r_find" /\ ind[u] = i /\ AllHeld \cup {i} = SlotIds

\* C16: on an active pool with all N ids checked out, when a GetConnecion(0) is
\* polling and a holder calls ReleaseConnecion on id i, then (threads keep
\* running) a GetConnecion eventually returns a slot: the released id i, or an
\* id released after it.
C16_ReleaseUnblocks ==
    \A i \in 0..(MaxConn - 1) :
        (/\ hasActiveConnections /\ connectionQueue = EmptyQueue
         /\ \E t \in Threads : Polling(t)
         /\ \E u \in Threads : Releasing(u, i))
        ~> (\E t \in Threads : pc[t] = "done" /\ ret[t].op = "get" /\ ret[t].ok)

\* no call is running in any thread
Quiescent == phase = "ready" /\ \A t \in Threads : pc[t] \in {"idle", "done"}

\* C17: with concurrent GetConnecion/ReleaseConnecion by callers that release
\* only slots they hold, whenever no call is mid-execution Indexes is the set of
\* ids in connectionQueue, no id is in connectionQueue more than once, and once
\* every holder has released, all N ids are in connectionQueue.
C17_QueueMatchesIndexes ==
    Quiescent =>
        /\ Indexes = QueueIds(connectionQueue)
        /\ \A i \in QueueIds(connectionQueue) : Occurrences(connectionQueue, i) = 1
        /\ AllHeld = {} => QueueIds(connectionQueue) = SlotIds

\* C18: in every interleaving of GetConnecion with ClosePoolConnections,
\* ResetPoolConnections and ReleaseConnecion, at the moment GetConnecion returns
\* a slot, hasActiveConnections is true and the connection of that slot is valid.
C18_NoSlotFromInactivePool ==
    [][\A t \in Threads :
          (pc[t] = "g_unlock" /\ pc'[t] = "done" /\ ret'[t].ok) =>
              /\ hasActiveConnections
              /\ ret'[t].id \in SlotIds /\ mySqlPtrList[ret'[t].id + 1].valid]_vars

\* C19: after any sequence of construction, ClosePoolConnections,
\* ResetPoolConnections (connect() succeeding or failing), GetConnecion and
\* ReleaseConnecion, whenever no call is mid-execution every slot whose id is
\* free (in connectionQueue or in Indexes) has a valid connection, and whenever
\* hasActiveConnections is true all N slots are connected.
C19_FreeImpliesConnected ==
    Quiescent =>
        /\ \A i \in (FreeIds \cup Indexes) \cap SlotIds : mySqlPtrList[i + 1].valid
        /\ hasActiveConnections =>
               (Len(mySqlPtrList) = numConnection
                /\ \A p \in DOMAIN mySqlPtrList : mySqlPtrList[p].valid)

====
